---- MODULE Spec2Model ----
(***************************************************************************)
(* Model of src/pydraco.hpp: the bridge between flat vertex / normal /    *)
(* face arrays and the draco mesh codec.                                   *)
(*                                                                         *)
(* encode_faces_to_drc_bytes and decode_drc_bytes_to_faces are modelled    *)
(* as sequential programs; pc is the position inside the running call.     *)
(* The draco library is an external collaborator: its operations are       *)
(* modelled by their contract (Deduplicate*, EncodeMeshToBuffer,           *)
(* GetEncodedGeometryType, DecodeMeshFromBuffer, StatusOr::value).         *)
(* Indices (points, value slots, face corners) are 0-based as in the code; *)
(* a sequence s is read at index i as s[i + 1].                            *)
(***************************************************************************)
EXTENDS Integers, Sequences, FiniteSets, TLC

VARIABLES
    pc,             \* position of the running call
    vertices,       \* encode argument: vertices_array_t (rows of 3 floats)
    normals,        \* encode argument: normals_array_t
    faces,          \* encode argument: faces_array_t (rows of 3 uint32)
    mesh,           \* the draco::Mesh the running call works on
    meshBuilt,      \* a Mesh object has been constructed in the running call
    calls,          \* draco operations invoked by the running call
    outcome,        \* how the last call ended ("none" while running)
    buf,            \* the bytes object: result of encode / argument of decode
    encStatusOk,    \* Status returned by EncodeMeshToBuffer (ignored by the code)
    fromEncode,     \* decode's argument is the result of the preceding encode
    geometry_type,  \* decode's local geometry_type
    decoded,        \* the mesh as DecodeMeshFromBuffer returned it
    outV,           \* decode result: vertices
    outN,           \* decode result: normals
    outF            \* decode result: faces

vars == << pc, vertices, normals, faces, mesh, meshBuilt, calls, outcome, buf,
           encStatusOk, fromEncode, geometry_type, decoded, outV, outN, outF >>

-----------------------------------------------------------------------------
(* Bounds of the model *)

MaxVerts == 2       \* rows of the vertex and normal arrays
MaxFaces == 1       \* rows of the face array

(* INT_MAX of the 32-bit int that holds max_vertex *)
IntMax == 2147483647

(* A uint32_t (face index, PointIndex) is the pair of its top bit and its  *)
(* low 31 bits: value = hi * 2^31 + lo.                                    *)
U32(n) == [hi |-> 0, lo |-> n]
U32Top(n) == [hi |-> 1, lo |-> n]
U32Less(a, b) == a.hi < b.hi \/ (a.hi = b.hi /\ a.lo < b.lo)
\* a < n, for a count n <= INT_MAX
U32Below(a, n) == a.hi = 0 /\ a.lo < n
\* the index a uint32 below 2^31 denotes
Idx(a) == a.lo

(* Sample float rows ("bit patterns"): positions and normals *)
Pos == { <<0, 0, 0>>, <<1, 0, 0>> }
Nrm == { <<0, 0, 1>>, <<0, 1, 0>> }

SeqsUpTo(S, n) == UNION { [1..k -> S] : k \in 0..n }

Min(a, b) == IF a < b THEN a ELSE b

-----------------------------------------------------------------------------
(* draco data structures *)

\* A PointAttribute: value array plus point index -> value slot table.
NoAttribute == [present |-> FALSE, vals |-> <<>>, map |-> <<>>, readable |-> TRUE]

EmptyMesh == [num_points |-> 0, pos |-> NoAttribute, nrm |-> NoAttribute,
              faces |-> <<>>]

IdentityMapping(n) == [i \in 1..n |-> i - 1]

\* An encoded buffer.  kind: "empty", "mesh", "pointcloud", "garbage".
EmptyBytes == [kind |-> "empty", payload |-> EmptyMesh]
GarbageBytes == [kind |-> "garbage", payload |-> EmptyMesh]
PointCloudBytes == [kind |-> "pointcloud", payload |-> EmptyMesh]
MeshBytes(m) == [kind |-> "mesh", payload |-> m]

-----------------------------------------------------------------------------
(* draco::Mesh::DeduplicateAttributeValues / DeduplicatePointIds *)

RECURSIVE Uniq(_, _)
\* The distinct entries of s in order of first occurrence, appended to acc.
Uniq(s, acc) ==
    IF s = <<>> THEN acc
    ELSE IF \E i \in DOMAIN acc : acc[i] = Head(s)
         THEN Uniq(Tail(s), acc)
         ELSE Uniq(Tail(s), Append(acc, Head(s)))

\* 0-based slot of x in a sequence without repetitions.
SlotOf(s, x) == (CHOOSE i \in DOMAIN s : s[i] = x) - 1

\* Bit-identical values of one attribute share one slot afterwards; the
\* mapping table is rewritten, the point count is untouched.
DedupAttributeValues(att) ==
    IF ~att.present THEN att
    ELSE LET newVals == Uniq(att.vals, <<>>)
         IN  [att EXCEPT !.vals = newVals,
                         !.map = [p \in DOMAIN att.map |->
                                     SlotOf(newVals, att.vals[att.map[p] + 1])]]

DeduplicateAttributeValues(m) ==
    [m EXCEPT !.pos = DedupAttributeValues(m.pos),
              !.nrm = DedupAttributeValues(m.nrm)]

\* The value slots a point resolves to, over all attributes of the mesh.
PointKey(m, p) ==
    << IF m.pos.present THEN m.pos.map[p + 1] ELSE 0,
       IF m.nrm.present THEN m.nrm.map[p + 1] ELSE 0 >>

\* Points that resolve to the same slots in every attribute become one point
\* (numbered by first occurrence); faces are rewritten through index_map.
DeduplicatePointIds(m) ==
    LET keys      == [q \in 1..m.num_points |-> PointKey(m, q - 1)]
        uniq      == Uniq(keys, <<>>)
        index_map == [q \in 1..m.num_points |-> SlotOf(uniq, keys[q])]
        remap(att, c) ==
            IF ~att.present THEN att
            ELSE [att EXCEPT !.map = [q \in 1..Len(uniq) |-> uniq[q][c]]]
    IN  IF Len(uniq) = m.num_points THEN m
        ELSE [num_points |-> Len(uniq),
              pos   |-> remap(m.pos, 1),
              nrm   |-> remap(m.nrm, 2),
              faces |-> [k \in DOMAIN m.faces |->
                            [c \in 1..3 |-> U32(index_map[Idx(m.faces[k][c]) + 1])]]]

Deduplicate(m) == DeduplicatePointIds(DeduplicateAttributeValues(m))

-----------------------------------------------------------------------------
(* encode_faces_to_drc_bytes: the pure parts *)

\* xt::amax(faces)(): the largest entry of the face array (the code reaches
\* it with a non-empty array only; 0 stands for the reduction of no entries).
AMax(f) ==
    LET all == { f[k][c] : k \in DOMAIN f, c \in 1..3 }
    IN  IF all = {} THEN U32(0)
        ELSE CHOOSE x \in all : \A y \in all : ~U32Less(x, y)

\* uint32 -> int conversion of "int max_vertex = xt::amax(faces)()".
\* Values from 2^31 on come out negative (value - 2^32).
ToInt(x) == IF x.hi = 1 THEN x.lo - IntMax - 1 ELSE x.lo

\* "vertex_count < max_vertex+1": the outcomes of the face-index check.
\* max_vertex+1 is computed in int; for max_vertex = INT_MAX it overflows
\* (undefined), so either outcome is possible there.  vertex_count is a
\* signed npy_intp, so the comparison is a signed one.
FaceCheckThrows(vertex_count, f) ==
    LET max_vertex == ToInt(AMax(f))
    IN  IF max_vertex = IntMax THEN BOOLEAN
        ELSE { vertex_count < max_vertex + 1 }

\* Mutant: only a surplus of normals is rejected.
NormalCheckThrows_Surplus(vertex_count, normal_count) ==
    normal_count > vertex_count

\* "normal_count > 0 and normal_count != vertex_count"
NormalCheckThrows(vertex_count, normal_count) ==
    normal_count > 0 /\ normal_count # vertex_count

\* Mutant: "face_count < 0", which no array satisfies.
EmptyFacesCase_Less(f) == Len(f) < 0

\* "face_count == 0": the empty-faces special case.
EmptyFacesCase(f) == Len(f) = 0

\* Mutant: the normal attribute is never added (lines 92-118 skipped).
BuildMesh_NoNormals(v, n, f) ==
    [num_points |-> Len(v),
     pos   |-> [present |-> TRUE, vals |-> v,
                map |-> IdentityMapping(Len(v)), readable |-> TRUE],
     nrm   |-> NoAttribute,
     faces |-> f]

\* Lines 63-133: the mesh built from the arrays.
BuildMesh(v, n, f) ==
    [num_points |-> Len(v),
     pos   |-> [present |-> TRUE, vals |-> v,
                map |-> IdentityMapping(Len(v)), readable |-> TRUE],
     nrm   |-> IF Len(n) > 0
               THEN [present |-> TRUE, vals |-> n,
                     map |-> IdentityMapping(Len(n)), readable |-> TRUE]
               ELSE NoAttribute,
     faces |-> f]

\* The assert of line 129 holds for every corner.
FacesInBounds(m) ==
    \A k \in DOMAIN m.faces : \A c \in 1..3 : U32Below(m.faces[k][c], m.num_points)

\* DeduplicatePointIds on a mesh whose faces hold an out-of-bounds point
\* index (reachable only past a face-index check that did not throw): the
\* read of index_map outside its storage is undefined; g is the value read.
DeduplicatePointIdsOutOfBounds(m, g) ==
    LET keys      == [q \in 1..m.num_points |-> PointKey(m, q - 1)]
        uniq      == Uniq(keys, <<>>)
        index_map == [q \in 1..m.num_points |-> SlotOf(uniq, keys[q])]
        remap(att, c) ==
            IF ~att.present THEN att
            ELSE [att EXCEPT !.map = [q \in 1..Len(uniq) |-> uniq[q][c]]]
    IN  [num_points |-> Len(uniq),
         pos   |-> remap(m.pos, 1),
         nrm   |-> remap(m.nrm, 2),
         faces |-> [k \in DOMAIN m.faces |->
                       [c \in 1..3 |->
                           IF U32Below(m.faces[k][c], m.num_points)
                           THEN U32(index_map[Idx(m.faces[k][c]) + 1])
                           ELSE g]]]

PointIdsAllUnique(m) ==
    Len(Uniq([q \in 1..m.num_points |-> PointKey(m, q - 1)], <<>>)) = m.num_points

-----------------------------------------------------------------------------
(* decode_drc_bytes_to_faces: the pure parts *)

\* Mutant: only an invalid geometry type is rejected.
GeometryCheckThrows_InvalidOnly(gt) == gt = "INVALID_GEOMETRY_TYPE"

\* "geometry_type != TRIANGULAR_MESH"
GeometryCheckThrows(gt) == gt # "TRIANGULAR_MESH"

\* Mutant: the special case is missing.
EmptyBufferCase_Never(b) == FALSE

\* "py::len(drc_bytes) == 0": the empty-buffer special case.
EmptyBufferCase(b) == b.kind = "empty"

\* Mutant: the point index is used as the value slot (clipped to the array).
MappedIndex_Identity(att, i) == Min(i, Len(att.vals) - 1)

\* att->mapped_index(i): point index -> value slot.
MappedIndex(att, i) == att.map[i + 1]

\* att->ConvertValue<float, 3>(slot, out): the 3 floats stored in a slot.
ConvertValue(att, slot) == att.vals[slot + 1]

\* Lines 209-224: one row per point, read through the mapping table.
ExtractVertices(m) ==
    [i \in 1..m.num_points |-> ConvertValue(m.pos, MappedIndex(m.pos, i - 1))]

\* Mutant: normal_att->size(), the size of the backing value array.
NormalCount_AttSize(m) == IF m.nrm.present THEN Len(m.nrm.vals) ELSE 0

\* Lines 227-237: the number of normal rows.
NormalCount(m) == IF m.nrm.present THEN m.num_points ELSE 0

\* Lines 239-262: one row per point, read through the mapping table.
ExtractNormals(m) ==
    [i \in 1..NormalCount(m) |-> ConvertValue(m.nrm, MappedIndex(m.nrm, i - 1))]

\* Mutant: corners 0 and 1 are written in each other's column.
ExtractFaces_Swapped(m) ==
    [k \in 1..Len(m.faces) |-> << m.faces[k][2], m.faces[k][1], m.faces[k][3] >>]

\* Lines 265-274: one row per face, corners in order.
ExtractFaces(m) ==
    [k \in 1..Len(m.faces) |-> << m.faces[k][1], m.faces[k][2], m.faces[k][3] >>]

-----------------------------------------------------------------------------
(* The codec (draco::Decoder), by its contract *)

\* What "decoder.GetEncodedGeometryType(&buf).value()" can yield.  When the
\* header cannot be read the StatusOr holds an error and value() is an
\* uninitialised EncodedGeometryType: any value.
GeometryTypeValues(b) ==
    CASE b.kind = "mesh"        -> { "TRIANGULAR_MESH" }
      [] b.kind = "meshcorrupt" -> { "TRIANGULAR_MESH" }
      [] b.kind = "pointcloud"  -> { "POINT_CLOUD" }
      [] OTHER -> { "TRIANGULAR_MESH", "POINT_CLOUD", "INVALID_GEOMETRY_TYPE" }

GeometryTypeStatusOk(b) == b.kind \in { "mesh", "meshcorrupt", "pointcloud" }

\* The same mesh with its points numbered in reverse.
ReversePoints(m) ==
    LET P == m.num_points
        rev(att) == IF ~att.present THEN att
                    ELSE [att EXCEPT !.map = [q \in 1..P |-> att.map[P + 1 - q]]]
    IN  [num_points |-> P, pos |-> rev(m.pos), nrm |-> rev(m.nrm),
         faces |-> [k \in DOMAIN m.faces |->
                       [c \in 1..3 |-> U32(P - 1 - Idx(m.faces[k][c]))]]]

\* The same mesh with corner c of face k moved to a new point that is a
\* duplicate of the point it referenced: a duplicate point id on the same
\* value slots (share), or on copies of the values.
SplitCorner(m, k, c, share) ==
    LET p == Idx(m.faces[k][c])
        dup(att) ==
            IF ~att.present THEN att
            ELSE IF share
                 THEN [att EXCEPT !.map = Append(att.map, att.map[p + 1])]
                 ELSE [att EXCEPT !.vals = Append(att.vals, att.vals[att.map[p + 1] + 1]),
                                  !.map = Append(att.map, Len(att.vals))]
    IN  [num_points |-> m.num_points + 1, pos |-> dup(m.pos), nrm |-> dup(m.nrm),
         faces |-> [m.faces EXCEPT ![k][c] = U32(m.num_points)]]

\* The meshes DecodeMeshFromBuffer may hand back for a buffer that encodes m
\* without loss: the same geometry, possibly with the points renumbered or
\* with duplicate point ids reintroduced.
DecodeVariants(m) ==
    { m, ReversePoints(m) }
    \cup { SplitCorner(m, k, c, share) :
              k \in DOMAIN m.faces, c \in 1..3, share \in BOOLEAN }

-----------------------------------------------------------------------------
(* Arguments of the calls *)

\* Arrays of the data model: any rows, M in {0, N}, every face index < N.
\* The code compares rows and never computes with them, so the first row of
\* an array is fixed to one sample.
VertexArrays == { v \in SeqsUpTo(Pos, MaxVerts) : v = <<>> \/ v[1] = <<0, 0, 0>> }
NormalArrays(v) ==
    { <<>> } \cup { n \in [1..Len(v) -> Nrm] : n = <<>> \/ n[1] = <<0, 0, 1>> }
FaceArrays(v) ==
    SeqsUpTo([1..3 -> { U32(i) : i \in 0..(Len(v) - 1) }], MaxFaces)

\* Arrays of any shape: every pair of lengths (one sample row repeated), and
\* face rows whose last corner ranges over the whole uint32 range, sampled at
\* its boundaries (MaxVerts is always out of range).
WideIndex == { U32(0), U32(MaxVerts), U32(IntMax), U32Top(IntMax) }
WideFaceArrays == SeqsUpTo({ << U32(0), U32(0), x >> : x \in WideIndex }, MaxFaces)
WideVertexArrays == { [i \in 1..n |-> <<0, 0, 0>>] : n \in 0..MaxVerts }
WideNormalArrays == { [i \in 1..n |-> <<0, 0, 1>>] : n \in 0..MaxVerts }

\* Buffers that do not come from encode_faces_to_drc_bytes: the meshes another
\* encoder may have written (not deduplicated, possibly without a position
\* attribute or with an attribute that cannot be read as 3 floats).
Defects == { "none", "no_position", "position_unreadable", "normal_unreadable" }

WithDefect(m, d) ==
    CASE d = "no_position"         -> [m EXCEPT !.pos = NoAttribute]
      [] d = "position_unreadable" -> [m EXCEPT !.pos.readable = FALSE]
      [] d = "normal_unreadable"   -> [m EXCEPT !.nrm.readable = FALSE]
      [] OTHER -> m

\* One triangle or none over the points of v.
ForeignFaces(v) == { f \in FaceArrays(v) : Len(f) <= 1 }

ForeignMeshes ==
    UNION { { WithDefect(BuildMesh(v, n, f), d) :
                n \in NormalArrays(v), f \in ForeignFaces(v), d \in Defects } :
            v \in VertexArrays }

ForeignBuffers ==
    { EmptyBytes, GarbageBytes, PointCloudBytes,
      [kind |-> "meshcorrupt", payload |-> EmptyMesh] }
    \cup { MeshBytes(m) : m \in ForeignMeshes }

-----------------------------------------------------------------------------
(* State machine *)

Init ==
    /\ pc = "idle"
    /\ vertices = <<>>
    /\ normals = <<>>
    /\ faces = <<>>
    /\ mesh = EmptyMesh
    /\ meshBuilt = FALSE
    /\ calls = {}
    /\ outcome = "none"
    /\ buf = EmptyBytes
    /\ encStatusOk = TRUE
    /\ fromEncode = FALSE
    /\ geometry_type = "UNSET"
    /\ decoded = EmptyMesh
    /\ outV = <<>>
    /\ outN = <<>>
    /\ outF = <<>>

decodeVars == << fromEncode, geometry_type, decoded, outV, outN, outF >>
inputVars == << vertices, normals, faces >>

\* A caller invokes encode_faces_to_drc_bytes(vertices, normals, faces).
EncodeBegin(v, n, f) ==
    /\ vertices' = v
    /\ normals' = n
    /\ faces' = f
    /\ pc' = "enc_entry"
    /\ UNCHANGED << mesh, meshBuilt, calls, outcome, buf, encStatusOk, decodeVars >>

EncodeCall ==
    /\ pc = "idle"
    /\ \E v \in VertexArrays :
          \E n \in NormalArrays(v), f \in FaceArrays(v) :
             EncodeBegin(v, n, f)

EncodeCallWide ==
    /\ pc = "idle"
    /\ \E v \in WideVertexArrays, n \in WideNormalArrays, f \in WideFaceArrays :
          EncodeBegin(v, n, f)

\* Lines 41-50: the empty-faces special case.
EncodeFaceCount ==
    /\ pc = "enc_entry"
    /\ IF EmptyFacesCase(faces)
       THEN /\ buf' = EmptyBytes
            /\ outcome' = "bytes"
            /\ pc' = "enc_done"
       ELSE /\ pc' = "enc_check_faces"
            /\ UNCHANGED << buf, outcome >>
    /\ UNCHANGED << inputVars, mesh, meshBuilt, calls, encStatusOk, decodeVars >>

\* Lines 52-56: the face-index check.
EncodeCheckFaces ==
    /\ pc = "enc_check_faces"
    /\ \E throws \in FaceCheckThrows(Len(vertices), faces) :
          IF throws
          THEN /\ outcome' = "ValidationError"
               /\ pc' = "enc_done"
          ELSE /\ pc' = "enc_check_normals"
               /\ UNCHANGED outcome
    /\ UNCHANGED << inputVars, mesh, meshBuilt, calls, buf, encStatusOk, decodeVars >>

\* Lines 58-61: the normal-count check.
EncodeCheckNormals ==
    /\ pc = "enc_check_normals"
    /\ IF NormalCheckThrows(Len(vertices), Len(normals))
       THEN /\ outcome' = "ValidationError"
            /\ pc' = "enc_done"
       ELSE /\ pc' = "enc_build"
            /\ UNCHANGED outcome
    /\ UNCHANGED << inputVars, mesh, meshBuilt, calls, buf, encStatusOk, decodeVars >>

\* Lines 63-133: mesh construction.  With an out-of-bounds face index the
\* assert of line 129 aborts the process, or (NDEBUG) the index is stored.
EncodeBuildMesh ==
    /\ pc = "enc_build"
    /\ mesh' = BuildMesh(vertices, normals, faces)
    /\ meshBuilt' = TRUE
    /\ \/ /\ pc' = "enc_dedup"
          /\ UNCHANGED outcome
       \/ /\ ~FacesInBounds(mesh')
          /\ outcome' = "crash"
          /\ pc' = "enc_done"
    /\ UNCHANGED << inputVars, calls, buf, encStatusOk, decodeVars >>

\* Lines 135-136: mesh.DeduplicateAttributeValues(); mesh.DeduplicatePointIds();
EncodeDeduplicate ==
    /\ pc = "enc_dedup"
    /\ calls' = calls \cup { "Deduplicate" }
    /\ LET m == DeduplicateAttributeValues(mesh)
       IN  IF FacesInBounds(m) \/ PointIdsAllUnique(m)
           THEN /\ mesh' = DeduplicatePointIds(m)
                /\ pc' = "enc_codec"
                /\ UNCHANGED outcome
           ELSE \/ /\ mesh' = m
                   /\ outcome' = "crash"
                   /\ pc' = "enc_done"
                \/ \E g \in { U32(0), U32Top(IntMax) } :
                      /\ mesh' = DeduplicatePointIdsOutOfBounds(m, g)
                      /\ pc' = "enc_codec"
                      /\ UNCHANGED outcome
    /\ UNCHANGED << inputVars, meshBuilt, buf, encStatusOk, decodeVars >>

\* Lines 138-143: encoder.EncodeMeshToBuffer(mesh, &buf); return bytes(buf).
\* The Status the encoder returns is not looked at: whatever the buffer
\* holds is returned.  A mesh with an out-of-bounds face index cannot be
\* encoded: the encoder fails or the process dies.
EncodeCodec ==
    /\ pc = "enc_codec"
    /\ calls' = calls \cup { "EncodeMeshToBuffer" }
    /\ \/ /\ FacesInBounds(mesh)
          /\ encStatusOk' = TRUE
          /\ buf' = MeshBytes(mesh)
          /\ outcome' = "bytes"
       \/ /\ encStatusOk' = FALSE
          /\ buf' \in { EmptyBytes, GarbageBytes }
          /\ outcome' = "bytes"
       \/ /\ ~FacesInBounds(mesh)
          /\ outcome' = "crash"
          /\ UNCHANGED << buf, encStatusOk >>
    /\ pc' = "enc_done"
    /\ UNCHANGED << inputVars, mesh, meshBuilt, decodeVars >>

\* A caller passes the bytes encode returned to decode_drc_bytes_to_faces.
DecodeCallRoundTrip ==
    /\ pc = "enc_done"
    /\ outcome = "bytes"
    /\ pc' = "dec_entry"
    /\ outcome' = "none"
    /\ fromEncode' = TRUE
    /\ calls' = {}
    /\ meshBuilt' = FALSE
    /\ mesh' = EmptyMesh
    /\ UNCHANGED << inputVars, buf, encStatusOk, geometry_type, decoded, outV, outN, outF >>

\* A caller passes bytes from elsewhere to decode_drc_bytes_to_faces.
DecodeCallForeign ==
    /\ pc = "idle"
    /\ \E b \in ForeignBuffers : buf' = b
    /\ pc' = "dec_entry"
    /\ UNCHANGED << inputVars, mesh, meshBuilt, calls, outcome, encStatusOk,
                    fromEncode, geometry_type, decoded, outV, outN, outF >>

\* Lines 158-172: the empty-buffer special case.
DecodeEntry ==
    /\ pc = "dec_entry"
    /\ IF EmptyBufferCase(buf)
       THEN /\ outV' = <<>>
            /\ outN' = <<>>
            /\ outF' = <<>>
            /\ outcome' = "arrays"
            /\ pc' = "dec_done"
       ELSE /\ pc' = "dec_geometry"
            /\ UNCHANGED << outV, outN, outF, outcome >>
    /\ UNCHANGED << inputVars, mesh, meshBuilt, calls, buf, encStatusOk,
                    fromEncode, geometry_type, decoded >>

\* Lines 185-191: the geometry kind of the buffer.
DecodeGeometryType ==
    /\ pc = "dec_geometry"
    /\ calls' = calls \cup { "GetEncodedGeometryType" }
    /\ geometry_type' \in GeometryTypeValues(buf)
    /\ IF GeometryCheckThrows(geometry_type')
       THEN /\ outcome' = "UnsupportedGeometryError"
            /\ pc' = "dec_done"
       ELSE /\ pc' = "dec_mesh"
            /\ UNCHANGED outcome
    /\ UNCHANGED << inputVars, mesh, meshBuilt, buf, encStatusOk, fromEncode,
                    decoded, outV, outN, outF >>

\* Line 193: decoder.DecodeMeshFromBuffer(&buf).value().  When the codec
\* fails, value() is a null pointer and line 197 dereferences it.
DecodeMesh ==
    /\ pc = "dec_mesh"
    /\ calls' = calls \cup { "DecodeMeshFromBuffer" }
    /\ IF buf.kind = "mesh"
       THEN /\ mesh' \in DecodeVariants(buf.payload)
            /\ decoded' = mesh'
            /\ meshBuilt' = TRUE
            /\ pc' = "dec_dedup"
            /\ UNCHANGED outcome
       ELSE /\ outcome' = "crash"
            /\ pc' = "dec_done"
            /\ UNCHANGED << mesh, decoded, meshBuilt >>
    /\ UNCHANGED << inputVars, buf, encStatusOk, fromEncode, geometry_type,
                    outV, outN, outF >>

\* Lines 197-198: pMesh->DeduplicateAttributeValues(); pMesh->DeduplicatePointIds();
DecodeDeduplicate ==
    /\ pc = "dec_dedup"
    /\ calls' = calls \cup { "Deduplicate" }
    /\ mesh' = Deduplicate(mesh)
    /\ pc' = "dec_vertices"
    /\ UNCHANGED << inputVars, meshBuilt, outcome, buf, encStatusOk, fromEncode,
                    geometry_type, decoded, outV, outN, outF >>

\* Lines 200-224: the vertex rows.
DecodeExtractVertices ==
    /\ pc = "dec_vertices"
    /\ IF ~mesh.pos.present
       THEN /\ outcome' = "NoVerticesError"
            /\ pc' = "dec_done"
            /\ UNCHANGED outV
       ELSE IF mesh.num_points > 0 /\ ~mesh.pos.readable
       THEN /\ outcome' = "ConversionError"
            /\ pc' = "dec_done"
            /\ UNCHANGED outV
       ELSE /\ outV' = ExtractVertices(mesh)
            /\ pc' = "dec_normals"
            /\ UNCHANGED outcome
    /\ UNCHANGED << inputVars, mesh, meshBuilt, calls, buf, encStatusOk,
                    fromEncode, geometry_type, decoded, outN, outF >>

\* Lines 226-262: the normal rows.
DecodeExtractNormals ==
    /\ pc = "dec_normals"
    /\ IF NormalCount(mesh) > 0 /\ ~mesh.nrm.readable
       THEN /\ outcome' = "ConversionError"
            /\ pc' = "dec_done"
            /\ UNCHANGED outN
       ELSE /\ outN' = ExtractNormals(mesh)
            /\ pc' = "dec_faces"
            /\ UNCHANGED outcome
    /\ UNCHANGED << inputVars, mesh, meshBuilt, calls, buf, encStatusOk,
                    fromEncode, geometry_type, decoded, outV, outF >>

\* Lines 264-277: the face rows, and the return.
DecodeExtractFaces ==
    /\ pc = "dec_faces"
    /\ outF' = ExtractFaces(mesh)
    /\ outcome' = "arrays"
    /\ pc' = "dec_done"
    /\ UNCHANGED << inputVars, mesh, meshBuilt, calls, buf, encStatusOk,
                    fromEncode, geometry_type, decoded, outV, outN >>

Next ==
    \/ DecodeCallRoundTrip
    \/ DecodeCallForeign
    \/ DecodeEntry
    \/ DecodeGeometryType
    \/ DecodeMesh
    \/ DecodeDeduplicate
    \/ DecodeExtractVertices
    \/ DecodeExtractNormals
    \/ DecodeExtractFaces
    \/ EncodeCall
    \/ EncodeCallWide
    \/ EncodeFaceCount
    \/ EncodeCheckFaces
    \/ EncodeCheckNormals
    \/ EncodeBuildMesh
    \/ EncodeDeduplicate
    \/ EncodeCodec

Spec == Init /\ [][Next]_vars

-----------------------------------------------------------------------------
(* Vocabulary of the properties *)

N == Len(vertices)
M == Len(normals)
F == Len(faces)

FaceIndicesValid == \A k \in DOMAIN faces : \A c \in 1..3 : U32Below(faces[k][c], N)
ValidInput == M \in { 0, N } /\ FaceIndicesValid

EncodeEnded == pc = "enc_done"
DecodeEnded == pc = "dec_done"

\* decode(encode(...)) has ended, and the codec encoded without loss.
RoundTripEnded == DecodeEnded /\ fromEncode /\ encStatusOk

RowSet(a) == { a[i] : i \in DOMAIN a }

\* The (position, normal) a point of mesh m resolves to.
PointPosition(m, p) == m.pos.vals[m.pos.map[p + 1] + 1]
PointNormal(m, p) == m.nrm.vals[m.nrm.map[p + 1] + 1]

-----------------------------------------------------------------------------
(* C1 *)

RoundTripFaces ==
    /\ Len(outF) = F
    /\ \A k \in DOMAIN faces : \A c \in 1..3 :
          /\ U32Below(outF[k][c], Len(outV))
          /\ outV[Idx(outF[k][c]) + 1] = vertices[Idx(faces[k][c]) + 1]

\* C1 (as stated): for every valid input without normals, the round trip
\* through a lossless codec returns the same set of distinct positions, F
\* faces whose corners carry the positions of the input corners, and no normals.
C1_AsStated ==
    (RoundTripEnded /\ ValidInput /\ M = 0) =>
        /\ outcome = "arrays"
        /\ RowSet(outV) = RowSet(vertices)
        /\ RoundTripFaces
        /\ Len(outN) = 0

\* C1 (amended): as stated when F > 0; for F = 0 the round trip returns three
\* empty arrays whatever the vertices were (face count F = 0 and no normals
\* still hold, the positions are not preserved).
C1_RoundTripNoNormals ==
    (RoundTripEnded /\ ValidInput /\ M = 0) =>
        /\ outcome = "arrays"
        /\ IF F > 0 THEN RowSet(outV) = RowSet(vertices) ELSE outV = <<>>
        /\ RoundTripFaces
        /\ Len(outN) = 0

\* A round trip of two vertices at one position, which come back as one point
\* although the codec handed back more points than were encoded.
C1_Witness ==
    /\ RoundTripEnded /\ ValidInput /\ M = 0 /\ F > 0
    /\ outcome = "arrays"
    /\ N = 2 /\ vertices[1] = vertices[2]
    /\ \E k \in DOMAIN faces : faces[k][1] # faces[k][2]
    /\ decoded.num_points > buf.payload.num_points
    /\ Len(outV) = 1

-----------------------------------------------------------------------------
(* C2 *)

-----------------------------------------------------------------------------
(* C3 *)

EncodePastFaceCheck ==
    \/ pc \in { "enc_check_normals", "enc_build", "enc_dedup", "enc_codec" }
    \/ EncodeEnded

\* C3: with a non-empty face array, a face index >= N ends encode in a
\* validation error before a mesh is constructed and before the codec is
\* invoked; with every face index < N the face-index check raises nothing.
\* (Stated for the face arrays on which the check's arithmetic is defined:
\* the largest index is not INT_MAX.)
C3_FaceIndexCheck ==
    (EncodePastFaceCheck /\ F > 0 /\ ToInt(AMax(faces)) # IntMax) =>
        IF FaceIndicesValid
        THEN (EncodeEnded /\ outcome = "ValidationError")
                 => NormalCheckThrows(N, M)
        ELSE /\ EncodeEnded
             /\ outcome = "ValidationError"
             /\ ~meshBuilt
             /\ calls = {}

-----------------------------------------------------------------------------
(* C4 *)

-----------------------------------------------------------------------------
(* C5 *)

\* C5: with F = 0 and M in {0, N}, encode returns zero-length bytes, without
\* constructing a mesh, deduplicating or invoking the codec.
C5_EmptyFaces ==
    (F = 0 /\ M \in { 0, N }) =>
        /\ pc \notin { "enc_check_faces", "enc_check_normals", "enc_build",
                       "enc_dedup", "enc_codec" }
        /\ EncodeEnded =>
              (outcome = "bytes" /\ buf = EmptyBytes /\ ~meshBuilt /\ calls = {})

\* An encode call with two vertices, two normals and no faces has returned.
C5_Witness ==
    /\ EncodeEnded /\ F = 0 /\ N = 2 /\ M = 2
    /\ outcome = "bytes" /\ buf = EmptyBytes

-----------------------------------------------------------------------------
(* C6 *)

\* C6: decode of a zero-length buffer returns three empty arrays and never
\* invokes the codec.
C6_EmptyBuffer ==
    (buf.kind = "empty") =>
        /\ pc \notin { "dec_geometry", "dec_mesh", "dec_dedup", "dec_vertices",
                       "dec_normals", "dec_faces" }
        /\ DecodeEnded =>
              /\ outcome = "arrays"
              /\ outV = <<>> /\ outN = <<>> /\ outF = <<>>
              /\ calls = {}
              /\ ~meshBuilt

\* decode has returned for the zero-length buffer an encode of a face-less
\* input with vertices produced.
C6_Witness ==
    /\ DecodeEnded /\ buf.kind = "empty" /\ outcome = "arrays"
    /\ fromEncode /\ N > 0 /\ F = 0

-----------------------------------------------------------------------------
(* C7 *)

\* C7: a failure reported by the codec ends the call in an error with no
\* output and no silent degradation.  Encode: when EncodeMeshToBuffer reports
\* failure for a structurally valid mesh, encode ends in an error and returns
\* no bytes, so with F > 0 returned bytes are never empty.
C7_CodecFailureAborts ==
    /\ (EncodeEnded /\ ValidInput /\ ~encStatusOk) => outcome # "bytes"
    /\ (EncodeEnded /\ ValidInput /\ F > 0 /\ outcome = "bytes")
          => buf.kind # "empty"

\* C7, decode: when GetEncodedGeometryType or DecodeMeshFromBuffer reports
\* failure for a non-empty buffer, decode ends in an error (the process
\* survives) and returns no arrays.
C7_DecodeFailureAborts ==
    (DecodeEnded /\ buf.kind \in { "garbage", "meshcorrupt" })
        => outcome \notin { "arrays", "crash" }

-----------------------------------------------------------------------------
(* C8 *)

\* C8: for a non-empty buffer whose geometry kind the codec reports as other
\* than triangular mesh, decode ends in an unsupported-geometry error without
\* attempting to decode a mesh; a mesh decode is attempted only when the
\* kind is triangular mesh.
C8_UnsupportedGeometry ==
    /\ (buf.kind = "pointcloud") =>
          /\ pc \notin { "dec_mesh", "dec_dedup", "dec_vertices", "dec_normals",
                         "dec_faces" }
          /\ DecodeEnded =>
                /\ outcome = "UnsupportedGeometryError"
                /\ "DecodeMeshFromBuffer" \notin calls
                /\ ~meshBuilt
    /\ ("DecodeMeshFromBuffer" \in calls \/ pc = "dec_mesh") =>
          /\ geometry_type = "TRIANGULAR_MESH"
          /\ GeometryTypeStatusOk(buf) => buf.kind \in { "mesh", "meshcorrupt" }

\* decode of a point-cloud buffer has ended, after the geometry-kind query.
C8_Witness ==
    /\ DecodeEnded /\ buf.kind = "pointcloud"
    /\ "GetEncodedGeometryType" \in calls
    /\ geometry_type = "POINT_CLOUD"
    /\ outcome = "UnsupportedGeometryError"

-----------------------------------------------------------------------------
(* C9 *)

DecodeReturnedMesh == DecodeEnded /\ outcome = "arrays" /\ buf.kind # "empty"

-----------------------------------------------------------------------------
(* C10 *)

DecodedPoints == 0..(decoded.num_points - 1)
ReturnedPoints == 0..(mesh.num_points - 1)

====
